---- MODULE Spec2Model ----
(***************************************************************************)
(* Model of the Simplifique.ai OpenAI-compatible adapter (src/server.js,   *)
(* src/unnamed/part_000).                                                  *)
(*                                                                         *)
(* server.js is a chain of four successive versions ("iterations") of the  *)
(* same handler for POST /v1/chat/completions, and part_000 is a fifth:    *)
(*   "first"       lines   19-167  structured errors, no UUID check        *)
(*   "strict"      lines  221-421  structured errors, upstream errors      *)
(*                                 surfaced                                *)
(*   "resilientFC" lines  528-707  upstream errors absorbed, function-call *)
(*                                 extraction                              *)
(*   "resilient"   lines  766-962  upstream errors absorbed, no function   *)
(*                                 calls                                   *)
(*   "draft"       part_000 19-246 structured errors; the parsed values    *)
(*                                 are kept in undeclared variables, which *)
(*                                 belong to the process, not the request  *)
(* A process runs one of them; the variable `iteration` says which.        *)
(*                                                                         *)
(* part_000 opens an else block at line 103 that it never closes; the      *)
(* draft is read as its indentation has it, with that block empty, so that *)
(* the code from line 105 on follows both branches.                        *)
(*                                                                         *)
(* Text is modelled as a sequence of one-character strings so that         *)
(* trimming, splitting, pattern matching and lengths are computed, not     *)
(* assumed.  The JavaScript values undefined and null are the one-element  *)
(* sequences Undefined and Null, which no text can equal because their     *)
(* element is longer than one character.                                   *)
(***************************************************************************)
EXTENDS Integers, Sequences, FiniteSets, TLC

(***************************************************************************)
(* Bounds of the model.                                                    *)
(***************************************************************************)
\* longest array of message objects a request carries
MaxMsgs == 2

(***************************************************************************)
(* JavaScript values and text primitives.                                  *)
(***************************************************************************)
Undefined == <<"undefined">>
Null == <<"null">>
\* a variable that was never assigned nor declared: reading it is a ReferenceError
Undeclared == <<"undeclared">>

\* JS truthiness of a string-or-absent value
Truthy(v) == v # Undefined /\ v # Null /\ v # <<>>

\* a || b
OrElse(a, b) == IF Truthy(a) THEN a ELSE b

SetMin(S) == CHOOSE x \in S : \A y \in S : x <= y
SetMax(S) == CHOOSE x \in S : \A y \in S : x >= y

\* \s of the regular expressions and the characters String.prototype.trim removes
IsSpace(c) == c \in {" ", "\n", "\r", "\t"}

LowerLetters == <<"a","b","c","d","e","f","g","h","i","j","k","l","m","n","o","p","q","r","s","t","u","v","w","x","y","z">>
UpperLetters == <<"A","B","C","D","E","F","G","H","I","J","K","L","M","N","O","P","Q","R","S","T","U","V","W","X","Y","Z">>
Digits == <<"0","1","2","3","4","5","6","7","8","9">>

Range(f) == {f[i] : i \in DOMAIN f}

\* \w of the regular expressions
IsWord(c) == c \in Range(LowerLetters) \cup Range(UpperLetters) \cup Range(Digits) \cup {"_"}

\* [0-9a-f] under the /i flag
IsHex(c) == c \in Range(Digits) \cup {"a","b","c","d","e","f","A","B","C","D","E","F"}

\* case folding of the /i flag
Lower(c) == IF c \in Range(UpperLetters) THEN LowerLetters[CHOOSE i \in 1..26 : UpperLetters[i] = c] ELSE c
LowerText(s) == [i \in 1..Len(s) |-> Lower(s[i])]

\* String.prototype.trim
Trim(s) ==
    LET keep == {i \in 1..Len(s) : ~IsSpace(s[i])}
    IN  IF keep = {} THEN <<>> ELSE SubSeq(s, SetMin(keep), SetMax(keep))

\* the pattern p occurs in s at position i
MatchAt(s, p, i) == i >= 1 /\ i + Len(p) - 1 <= Len(s) /\ SubSeq(s, i, i + Len(p) - 1) = p

\* String.prototype.startsWith
StartsWith(s, p) == MatchAt(s, p, 1)

\* first position >= from at which p occurs in s, 0 when there is none
IndexOf(s, p, from) ==
    LET at == {i \in from..Len(s) : MatchAt(s, p, i)}
    IN  IF at = {} THEN 0 ELSE SetMin(at)

\* first position >= i that holds no white space (Len(s)+1 when none): a greedy \s*
SkipSpaces(s, i) ==
    LET stop == {j \in i..Len(s) : ~IsSpace(s[j])}
    IN  IF stop = {} THEN Len(s) + 1 ELSE SetMin(stop)

\* first position >= i that holds no word character: a greedy [\w\d_]*
SkipWord(s, i) ==
    LET stop == {j \in i..Len(s) : ~IsWord(s[j])}
    IN  IF stop = {} THEN Len(s) + 1 ELSE SetMin(stop)

\* first position >= i that holds a line break: a greedy [^\n\r]*
SkipLine(s, i) ==
    LET stop == {j \in i..Len(s) : s[j] \in {"\n", "\r"}}
    IN  IF stop = {} THEN Len(s) + 1 ELSE SetMin(stop)

\* String.prototype.replace(p, '') with a string pattern: the first occurrence only
RemoveFirst(s, p) ==
    LET i == IndexOf(s, p, 1)
    IN  IF i = 0 THEN s ELSE SubSeq(s, 1, i - 1) \o SubSeq(s, i + Len(p), Len(s))

\* String.prototype.split(c) for a one-character separator
RECURSIVE Split(_, _)
Split(s, c) ==
    LET i == IndexOf(s, <<c>>, 1)
    IN  IF i = 0 THEN <<s>> ELSE <<SubSeq(s, 1, i - 1)>> \o Split(SubSeq(s, i + 1, Len(s)), c)

\* String.prototype.substr(start, length), start counted from 0
Substr(s, start, length) == SubSeq(s, start + 1, IF start + length < Len(s) THEN start + length ELSE Len(s))

\* String(v) / template-literal coercion
ToText(v) == IF v = Undefined THEN <<"u","n","d","e","f","i","n","e","d">> ELSE IF v = Null THEN <<"n","u","l","l">> ELSE v

\* Math.ceil(n / 4) for a length n
Ceil4(n) == (n + 3) \div 4

\* decimal rendering of a small natural number
RECURSIVE Decimal(_)
Decimal(n) == IF n < 10 THEN <<Digits[n + 1]>> ELSE Decimal(n \div 10) \o <<Digits[(n % 10) + 1]>>

(***************************************************************************)
(* Literals of the program.                                                *)
(***************************************************************************)
BearerPrefix == <<"B","e","a","r","e","r"," ">>
TokenPrefix == <<"T","o","k","e","n"," ">>
KNOWN_MODELS == { <<"g","p","t","-","3",".","5","-","t","u","r","b","o">>, <<"g","p","t","-","4">>, <<"g","p","t","-","4","o">>, <<"s","i","m","p","l","i","f","i","q","u","e","-","d","e","f","a","u","l","t">> }
DefaultModel == <<"g","p","t","-","3",".","5","-","t","u","r","b","o">>
FingerprintPrefix == <<"s","i","m","p","l","i","f","i","q","u","e","_">>
ApologyAnswer == <<"D","e","s","c","u","l","p","e",","," ","n","ã","o"," ","f","o","i"," ","p","o","s","s","í","v","e","l"," ","o","b","t","e","r"," ","u","m","a"," ","r","e","s","p","o","s","t","a"," ","d","o"," ","c","h","a","t","b","o","t"," ","a","g","o","r","a",".">>
NoAnswerContent == <<"D","e","s","c","u","l","p","e",","," ","n","ã","o"," ","c","o","n","s","e","g","u","i"," ","o","b","t","e","r"," ","u","m","a"," ","r","e","s","p","o","s","t","a"," ","n","o"," ","m","o","m","e","n","t","o",".">>
ErrorContentPrefix == <<"D","e","s","c","u","l","p","e",","," ","o","c","o","r","r","e","u"," ","u","m"," ","e","r","r","o",":"," ">>
UnexpectedErrorText == <<"e","r","r","o"," ","i","n","e","s","p","e","r","a","d","o",".">>
MsgAuthMissing == <<"A","u","t","h","o","r","i","z","a","t","i","o","n"," ","h","e","a","d","e","r"," ","m","i","s","s","i","n","g"," ","o","r"," ","i","n","v","a","l","i","d">>
MsgTokenUuidFormat == <<"T","o","k","e","n"," ","a","n","d"," ","U","U","I","D"," ","m","u","s","t"," ","b","e"," ","p","r","o","v","i","d","e","d"," ","i","n"," ","f","o","r","m","a","t",":"," ","B","e","a","r","e","r"," ","T","O","K","E","N",":","U","U","I","D">>
MsgExpectedFormat == <<"E","x","p","e","c","t","e","d"," ","f","o","r","m","a","t",":"," ","B","e","a","r","e","r"," ","T","O","K","E","N",":","U","U","I","D">>
MsgInvalidUuid == <<"I","n","v","a","l","i","d"," ","c","h","a","t","b","o","t"," ","U","U","I","D"," ","f","o","r","m","a","t">>
MsgUuidDetails == <<"U","U","I","D"," ","d","e","v","e"," ","e","s","t","a","r"," ","n","o"," ","f","o","r","m","a","t","o",":"," ","x","x","x","x","x","x","x","x","-","x","x","x","x","-","x","x","x","x","-","x","x","x","x","-","x","x","x","x","x","x","x","x","x","x","x","x">>
MsgNoContent == <<"N","o"," ","m","e","s","s","a","g","e"," ","c","o","n","t","e","n","t"," ","f","o","u","n","d">>
MsgNoUserMessage == <<"N","o"," ","u","s","e","r"," ","m","e","s","s","a","g","e"," ","f","o","u","n","d">>
MsgNoUserDetails == <<"A"," ","u","s","e","r"," ","m","e","s","s","a","g","e"," ","(","Q","u","e","r","y",":"," ","o","r"," ","r","o","l","e",":"," ","u","s","e","r",")"," ","i","s"," ","r","e","q","u","i","r","e","d">>
MsgInvalidToken == <<"I","n","v","a","l","i","d"," ","A","P","I"," ","t","o","k","e","n">>
MsgInvalidParams == <<"I","n","v","a","l","i","d"," ","r","e","q","u","e","s","t"," ","p","a","r","a","m","e","t","e","r","s">>
MsgInternal == <<"I","n","t","e","r","n","a","l"," ","s","e","r","v","e","r"," ","e","r","r","o","r">>
FunctionCallMarker == <<"[","F","U","N","C","T","I","O","N","_","C","A","L","L","]">>
SystemMarker == <<"S","y","s","t","e","m",":">>
ContextoExtraMarker == <<"C","o","n","t","e","x","t","o"," ","E","x","t","r","a">>
HumanMarker == <<"H","u","m","a","n",":">>
QueryMarker == <<"q","u","e","r","y",":">>
QueryMarkerDraft == <<"Q","u","e","r","y",":">>
UserKeyMarker == <<"u","s","e","r","_","k","e","y",":">>
KeyPrefixFirst == <<"n","8","n","-","u","s","e","r","-">>
KeyPrefix == <<"n","8","n","-">>
ToolId == <<"t","o","o","l","1">>

\* messages the runtime and axios attach to the errors they raise
TypeErrorMessage(base, prop) == <<"C","a","n","n","o","t"," ","r","e","a","d"," ","p","r","o","p","e","r","t","i","e","s"," ","o","f"," ">> \o base \o <<" ","(","r","e","a","d","i","n","g"," ","'">> \o prop \o <<"'",")">>
ReferenceErrorMessage(name) == name \o <<" ","i","s"," ","n","o","t"," ","d","e","f","i","n","e","d">>
AxiosTimeoutMessage == <<"t","i","m","e","o","u","t"," ","o","f"," ","3","0","0","0","0","m","s"," ","e","x","c","e","e","d","e","d">>
AxiosNetworkMessage == <<"N","e","t","w","o","r","k"," ","E","r","r","o","r">>
AxiosStatusMessage(status) == <<"R","e","q","u","e","s","t"," ","f","a","i","l","e","d"," ","w","i","t","h"," ","s","t","a","t","u","s"," ","c","o","d","e"," ">> \o Decimal(status)

(***************************************************************************)
(* Authentication parse (server.js 36-37, 240-244, 545-548, 787-790).      *)
(***************************************************************************)
\* authHeader.replace('Bearer ', '').trim()
authData(authHeader) == Trim(RemoveFirst(authHeader, BearerPrefix))

\* [apiToken, chatbotUuid] = authData.split(':'): the first two pieces, whatever follows
apiTokenOf(authHeader) == Split(authData(authHeader), ":")[1]
chatbotUuidOf(authHeader) ==
    LET parts == Split(authData(authHeader), ":")
    IN  IF Len(parts) >= 2 THEN parts[2] ELSE Undefined

\* /^[0-9a-f]{8}-[0-9a-f]{4}-[0-9a-f]{4}-[0-9a-f]{4}-[0-9a-f]{12}$/i .test(v)
uuidRegex(v) ==
    LET s == ToText(v)
    IN  /\ Len(s) = 36
        /\ \A i \in 1..36 : IF i \in {9, 14, 19, 24} THEN s[i] = "-" ELSE IsHex(s[i])

(***************************************************************************)
(* JSON.parse, as far as acceptance goes, for the JSON texts made of       *)
(* objects, arrays, strings without escapes, integers and the three        *)
(* literals.  Each Parse operator returns the position after the value it  *)
(* read, or 0 when the text is not JSON there.                             *)
(***************************************************************************)
ParseJsonString(s, i) ==
    IF i > Len(s) \/ s[i] # "\"" THEN 0
    ELSE LET close == {j \in (i + 1)..Len(s) : s[j] = "\""}
             j == SetMin(close)
         IN  IF close = {} THEN 0
             ELSE IF \E k \in (i + 1)..(j - 1) : s[k] \in {"\\", "\n", "\r", "\t"} THEN 0
             ELSE j + 1

ParseJsonNumber(s, i) ==
    LET d == IF i <= Len(s) /\ s[i] = "-" THEN i + 1 ELSE i
        stop == {j \in d..Len(s) : s[j] \notin Range(Digits)}
        e == IF stop = {} THEN Len(s) + 1 ELSE SetMin(stop)
    IN  IF e = d THEN 0
        ELSE IF e - d > 1 /\ s[d] = "0" THEN 0
        ELSE e

RECURSIVE ParseJsonValue(_, _), ParseJsonMembers(_, _), ParseJsonElements(_, _)
ParseJsonValue(s, i) ==
    LET j == SkipSpaces(s, i)
    IN  IF j > Len(s) THEN 0
        ELSE IF s[j] = "{" THEN
            (IF SkipSpaces(s, j + 1) <= Len(s) /\ s[SkipSpaces(s, j + 1)] = "}"
             THEN SkipSpaces(s, j + 1) + 1
             ELSE ParseJsonMembers(s, SkipSpaces(s, j + 1)))
        ELSE IF s[j] = "[" THEN
            (IF SkipSpaces(s, j + 1) <= Len(s) /\ s[SkipSpaces(s, j + 1)] = "]"
             THEN SkipSpaces(s, j + 1) + 1
             ELSE ParseJsonElements(s, j + 1))
        ELSE IF s[j] = "\"" THEN ParseJsonString(s, j)
        ELSE IF MatchAt(s, <<"t","r","u","e">>, j) THEN j + 4
        ELSE IF MatchAt(s, <<"f","a","l","s","e">>, j) THEN j + 5
        ELSE IF MatchAt(s, <<"n","u","l","l">>, j) THEN j + 4
        ELSE ParseJsonNumber(s, j)

\* "key" : value ( , "key" : value )* }
ParseJsonMembers(s, i) ==
    LET k == ParseJsonString(s, i)
        c == IF k = 0 THEN 0 ELSE SkipSpaces(s, k)
        v == IF c = 0 \/ c > Len(s) \/ s[c] # ":" THEN 0 ELSE ParseJsonValue(s, c + 1)
        n == IF v = 0 THEN 0 ELSE SkipSpaces(s, v)
    IN  IF n = 0 \/ n > Len(s) THEN 0
        ELSE IF s[n] = "}" THEN n + 1
        ELSE IF s[n] = "," THEN ParseJsonMembers(s, SkipSpaces(s, n + 1))
        ELSE 0

\* value ( , value )* ]
ParseJsonElements(s, i) ==
    LET v == ParseJsonValue(s, i)
        n == IF v = 0 THEN 0 ELSE SkipSpaces(s, v)
    IN  IF n = 0 \/ n > Len(s) THEN 0
        ELSE IF s[n] = "]" THEN n + 1
        ELSE IF s[n] = "," THEN ParseJsonElements(s, n + 1)
        ELSE 0

\* the value read up to position e is the whole text, but for trailing white space
WholeText(text, e) == e # 0 /\ SkipSpaces(text, e) = Len(text) + 1

\* JSON.parse(text) returns (TRUE) or throws (FALSE)
JSONParses(text) == WholeText(text, ParseJsonValue(text, 1))

(***************************************************************************)
(* Function-call parser (server.js 485-525).                               *)
(***************************************************************************)
NoMatch == [ok |-> FALSE, name |-> <<>>, args |-> <<>>]

\* ^ under the /m flag: the start of the text or of a line
LineStart(s, p) == p = 1 \/ (p >= 2 /\ p <= Len(s) /\ s[p - 1] \in {"\n", "\r"})

\* funcRegex tried at start position p, with the backtracking a regular-expression
\* engine does when nothing is left for the last group: the second \s* gives back
\* its last character, and failing that the name gives back its last character
funcRegexAt(s, p) ==
    LET a == SkipSpaces(s, p + Len(FunctionCallMarker))
        w == SkipWord(s, a)
        b == SkipSpaces(s, w)
    IN  IF ~(LineStart(s, p) /\ MatchAt(s, FunctionCallMarker, p)) \/ w = a THEN NoMatch
        ELSE IF b <= Len(s) THEN [ok |-> TRUE, name |-> SubSeq(s, a, w - 1), args |-> SubSeq(s, b, Len(s))]
        ELSE IF b > w THEN [ok |-> TRUE, name |-> SubSeq(s, a, w - 1), args |-> SubSeq(s, Len(s), Len(s))]
        ELSE IF w - a >= 2 THEN [ok |-> TRUE, name |-> SubSeq(s, a, w - 2), args |-> SubSeq(s, w - 1, w - 1)]
        ELSE NoMatch

\* answer.match(/^\[FUNCTION_CALL\]\s*([\w\d_]+)\s*([\s\S]+)$/m): the leftmost start that matches
funcRegex(answer) ==
    LET starts == {p \in 1..Len(answer) : funcRegexAt(answer, p).ok}
    IN  IF starts = {} THEN NoMatch ELSE funcRegexAt(answer, SetMin(starts))

\* argsRejected without the validation: the catch block never runs
argsRejectedNever(args) == FALSE

\* the try/catch around JSON.parse: TRUE when the catch block runs
argsRejected(args) == args # <<>> /\ Head(args) = "{" /\ args[Len(args)] = "}" /\ ~JSONParses(args)

\* server.js 491-524 after the match: arguments is what the tool call hands on as match[2]
toolCallFrom(answer, match, arguments) ==
    IF ~Truthy(answer) THEN [content |-> <<>>, tool_calls |-> <<>>]
    ELSE IF match.ok /\ argsRejected(Trim(match.args)) THEN [content |-> answer, tool_calls |-> <<>>]
    ELSE IF match.ok THEN
        [content |-> <<>>,
         tool_calls |-> << [id |-> ToolId, type |-> "function",
                            function |-> [name |-> match.name, arguments |-> arguments]] >>]
    ELSE [content |-> answer, tool_calls |-> <<>>]

\* parseFunctionCall handing on match[2] as captured, without the trim
parseFunctionCallUntrimmed(answer) == toolCallFrom(answer, funcRegex(answer), funcRegex(answer).args)

\* tool_calls is a sequence of tool-call records; the empty sequence stands for null
parseFunctionCall(answer) == toolCallFrom(answer, funcRegex(answer), Trim(funcRegex(answer).args))

(***************************************************************************)
(* Message extraction.  A request's messages is a sequence of elements     *)
(* [type, role, content, text]: type "object" for a {role, content}        *)
(* object (text is unused), type "string" for a bare string held in text   *)
(* (role and content are then undefined, as they are in JavaScript).       *)
(***************************************************************************)
\* the legacy single-string shape: messages.length === 1 && typeof messages[0] === 'string'
IsLegacyString(messages) == Len(messages) = 1 /\ messages[1].type = "string"

\* messageString.match(/System:\s*([\s\S]*?)(?=Contexto Extra|$)/), trimmed; '' when no match
systemMatch(messageString) ==
    LET i == IndexOf(messageString, SystemMarker, 1)
        a == SkipSpaces(messageString, i + Len(SystemMarker))
        e == IndexOf(messageString, ContextoExtraMarker, a)
    IN  IF i = 0 THEN <<>>
        ELSE Trim(SubSeq(messageString, a, IF e = 0 THEN Len(messageString) ELSE e - 1))

\* messageString.match(/Contexto Extra\s*Human:\s*([\s\S]*?)$/): [ok, the capture trimmed]
contextoMatch(messageString) ==
    LET starts == {p \in 1..Len(messageString) :
                      /\ MatchAt(messageString, ContextoExtraMarker, p)
                      /\ MatchAt(messageString, HumanMarker,
                                 SkipSpaces(messageString, p + Len(ContextoExtraMarker)))}
        p0 == SetMin(starts)
        h == SkipSpaces(messageString, p0 + Len(ContextoExtraMarker))
    IN  IF starts = {} THEN [ok |-> FALSE, contextoContent |-> <<>>]
        ELSE [ok |-> TRUE,
              contextoContent |-> Trim(SubSeq(messageString, h + Len(HumanMarker), Len(messageString)))]

\* contextoContent.match(/Query:\s*([\s\S]*?)\s*user_key:/i), trimmed; '' when no match
queryMatch(contextoContent) ==
    LET lc == LowerText(contextoContent)
        q == IndexOf(lc, QueryMarker, 1)
        a == SkipSpaces(contextoContent, q + Len(QueryMarker))
        u == IndexOf(lc, UserKeyMarker, a)
    IN  IF q = 0 \/ u = 0 THEN <<>> ELSE Trim(SubSeq(contextoContent, a, u - 1))

\* contextoContent.match(/user_key:\s*([^\n\r]*)/i), trimmed; '' when no match
userKeyMatch(contextoContent) ==
    LET lc == LowerText(contextoContent)
        u == IndexOf(lc, UserKeyMarker, 1)
        a == SkipSpaces(contextoContent, u + Len(UserKeyMarker))
    IN  IF u = 0 THEN <<>> ELSE Trim(SubSeq(contextoContent, a, SkipLine(contextoContent, a) - 1))

\* messageString.match(/Human:\s*([^\n\r]*)/), trimmed; '' when no match
humanMatch(messageString) ==
    LET h == IndexOf(messageString, HumanMarker, 1)
        a == SkipSpaces(messageString, h + Len(HumanMarker))
    IN  IF h = 0 THEN <<>> ELSE Trim(SubSeq(messageString, a, SkipLine(messageString, a) - 1))

\* the legacy branch (server.js 262-287, 556-571, 798-818)
parseMessageString(messageString) ==
    LET ctx == contextoMatch(messageString)
        fromContext == IF ctx.ok THEN queryMatch(ctx.contextoContent) ELSE <<>>
        userQuery == IF Truthy(fromContext) THEN fromContext ELSE humanMatch(messageString)
    IN  [customSystemPrompt |-> systemMatch(messageString),
         userQuery |-> userQuery,
         userKey |-> IF ctx.ok THEN userKeyMatch(ctx.contextoContent) ELSE <<>>,
         lastContent |-> IF Truthy(userQuery) THEN userQuery ELSE Undefined]

\* the array branch of the resilient iterations (server.js 574-580, 822-829)
parseMessageArray(messages) ==
    LET sys == {i \in 1..Len(messages) :
                   messages[i].type = "object" /\ messages[i].role = "system" /\ Truthy(messages[i].content)}
        valid == {i \in 1..Len(messages) : messages[i].type = "object" /\ Truthy(messages[i].content)}
        lastContent == IF valid = {} THEN Undefined ELSE messages[SetMax(valid)].content
    IN  [customSystemPrompt |-> IF sys = {} THEN <<>> ELSE Trim(messages[SetMin(sys)].content),
         userQuery |-> IF Truthy(lastContent) THEN Trim(lastContent) ELSE <<>>,
         userKey |-> <<>>,
         lastContent |-> lastContent]

\* the else branch of the strict iteration (server.js 289-297)
parseMessageArrayStrict(messages) ==
    LET sys == {i \in 1..Len(messages) : messages[i].role = "system"}
        lastContent == IF messages = <<>> THEN Undefined ELSE messages[Len(messages)].content
    IN  [customSystemPrompt |-> IF sys # {} /\ Truthy(messages[SetMin(sys)].content)
                                THEN Trim(messages[SetMin(sys)].content) ELSE <<>>,
         userQuery |-> IF Truthy(lastContent) THEN Trim(lastContent) ELSE <<>>,
         userKey |-> <<>>,
         lastContent |-> lastContent]

\* the first iteration (server.js 49-69): the last element and the first system message, untrimmed
parseMessageArrayFirst(messages) ==
    LET sys == {i \in 1..Len(messages) : messages[i].role = "system"}
        lastContent == IF messages = <<>> THEN Undefined ELSE messages[Len(messages)].content
    IN  [customSystemPrompt |-> IF sys = {} THEN <<>> ELSE messages[SetMin(sys)].content,
         userQuery |-> IF Truthy(lastContent) THEN lastContent ELSE <<>>,
         userKey |-> <<>>,
         lastContent |-> lastContent]

(***************************************************************************)
(* User key (server.js 62, 312-322, 588-598, 838-848).  now is the text of *)
(* Date.now(), random the text of Math.random().toString(36).              *)
(***************************************************************************)
\* `n8n-${Date.now()}-${Math.random().toString(36).substr(2, 9)}`
generatedKey(now, random) == KeyPrefix \o now \o <<"-">> \o Substr(random, 2, 9)

resolveUserKey(embedded, req, now, random) ==
    IF Truthy(embedded) THEN embedded
    ELSE IF Truthy(req.model) /\ req.model \notin KNOWN_MODELS THEN req.model
    ELSE OrElse(req.user, OrElse(req.xUserKey, OrElse(req.xUserId, generatedKey(now, random))))

\* openaiRequest.user || `n8n-user-${Date.now()}`
resolveUserKeyFirst(req, now) == OrElse(req.user, KeyPrefixFirst \o now)

(***************************************************************************)
(* Responses, outbound calls and upstream bodies.                          *)
(***************************************************************************)
Iterations == {"first", "strict", "resilientFC", "resilient", "draft"}
ResilientIterations == {"resilientFC", "resilient"}

\* res.status(status).json({ error: { message, type, details } }); details Undefined = absent
ErrorEnvelope(status, message, type, details) ==
    [kind |-> "error", status |-> status, message |-> message, type |-> type, details |-> details,
     model |-> Undefined, system_fingerprint |-> Undefined, content |-> Undefined,
     hasToolCalls |-> FALSE, tool_calls |-> <<>>,
     prompt_tokens |-> 0, completion_tokens |-> 0, total_tokens |-> 0,
     simplifique_chat_id |-> Undefined]

\* the OpenAI-shaped object; id and created are left out, they carry a fresh uuid and the clock.
\* hasToolCalls says whether message has a tool_calls key, whose value is then
\* tool_calls (the empty sequence standing for null)
Completion(status, model, fingerprint, content, hasToolCalls, tool_calls, prompt, completion, total, chatId) ==
    [kind |-> "completion", status |-> status, message |-> Undefined, type |-> "", details |-> Undefined,
     model |-> model, system_fingerprint |-> fingerprint, content |-> content,
     hasToolCalls |-> hasToolCalls, tool_calls |-> tool_calls,
     prompt_tokens |-> prompt, completion_tokens |-> completion, total_tokens |-> total,
     simplifique_chat_id |-> chatId]

\* what the handler knows after normalization
Normalized(apiToken, chatbotUuid, parsed, userKey) ==
    [apiToken |-> apiToken, chatbotUuid |-> chatbotUuid, userQuery |-> parsed.userQuery,
     customSystemPrompt |-> parsed.customSystemPrompt, userKey |-> userKey,
     lastContent |-> parsed.lastContent]

NoNormalized ==
    [apiToken |-> <<>>, chatbotUuid |-> <<>>, userQuery |-> <<>>,
     customSystemPrompt |-> <<>>, userKey |-> <<>>, lastContent |-> Undefined]

\* axios.post(`${SIMPLIFIQUE_BASE_URL}/message/`, simplifiqueRequest, { headers, timeout });
\* custom_base_system_prompt Undefined = the key is absent; timeout 0 = none configured
simplifiqueRequest(n, includePrompt, timeout) ==
    [authorization |-> TokenPrefix \o ToText(n.apiToken),
     timeout |-> timeout,
     chatbot_uuid |-> n.chatbotUuid,
     query |-> n.userQuery,
     user_key |-> n.userKey,
     custom_base_system_prompt |-> IF includePrompt THEN n.customSystemPrompt ELSE Undefined]

\* a response body of the backend as axios hands it over: shape "null" is a body that
\* parsed to null (or no data at all); shape "object" is an object, whose absent keys are
\* Undefined (an empty body, the empty string, behaves as an object without keys);
\* hasData says whether it has a data object
UpstreamBody(shape, hasData, answer, chatId, detail, message, errors) ==
    [shape |-> shape, hasData |-> hasData, answer |-> answer, chat_id |-> chatId,
     detail |-> detail, message |-> message, errors |-> errors]

NullBody == UpstreamBody("null", FALSE, Undefined, Undefined, Undefined, Undefined, Undefined)
EmptyBody == UpstreamBody("object", FALSE, Undefined, Undefined, Undefined, Undefined, Undefined)
AnswerBody(answer, chatId) == UpstreamBody("object", TRUE, answer, chatId, Undefined, Undefined, Undefined)

\* how the outbound call ended: kind "response" (any status), "timeout" or "network"
Outcome(kind, status, body) == [kind |-> kind, status |-> status, body |-> body]
NoOutcome == Outcome("none", 0, NullBody)

\* error.message of the rejection axios raises
errorMessage(outcome) ==
    IF outcome.kind = "timeout" THEN AxiosTimeoutMessage
    ELSE IF outcome.kind = "network" THEN AxiosNetworkMessage
    ELSE AxiosStatusMessage(outcome.status)

(***************************************************************************)
(* Normalization: the handler up to the outbound call.  A request is       *)
(* [authorization, hasBody, messages, model, user, xUserKey, xUserId];     *)
(* an absent header or field is Undefined.                                 *)
(***************************************************************************)
\* an early `return res.status(...).json(...)`
Rejected(status, message, type, details) ==
    [ok |-> FALSE, thrown |-> FALSE, status |-> status, message |-> message, type |-> type,
     details |-> details, n |-> NoNormalized]

\* an exception on its way to the outer catch
Thrown(message) ==
    [ok |-> FALSE, thrown |-> TRUE, status |-> 0, message |-> message, type |-> "",
     details |-> Undefined, n |-> NoNormalized]

Accepted(n) ==
    [ok |-> TRUE, thrown |-> FALSE, status |-> 0, message |-> Undefined, type |-> "",
     details |-> Undefined, n |-> n]

\* !authHeader || !authHeader.startsWith('Bearer ')
authHeaderInvalid(authHeader) == ~Truthy(authHeader) \/ ~StartsWith(authHeader, BearerPrefix)

\* openaiRequest.messages when req.body is undefined
MissingBodyError == TypeErrorMessage(<<"u","n","d","e","f","i","n","e","d">>, <<"m","e","s","s","a","g","e","s">>)

\* server.js 21-62
normalizeFirst(req, now) ==
    LET apiToken == apiTokenOf(req.authorization)
        chatbotUuid == chatbotUuidOf(req.authorization)
        parsed == parseMessageArrayFirst(req.messages)
    IN  IF authHeaderInvalid(req.authorization)
        THEN Rejected(401, MsgAuthMissing, "authentication_error", Undefined)
        ELSE IF ~Truthy(apiToken) \/ ~Truthy(chatbotUuid)
        THEN Rejected(401, MsgTokenUuidFormat, "authentication_error", Undefined)
        ELSE IF ~req.hasBody THEN Thrown(MissingBodyError)
        ELSE IF ~Truthy(parsed.lastContent)
        THEN Rejected(400, MsgNoContent, "invalid_request_error", Undefined)
        ELSE Accepted(Normalized(apiToken, chatbotUuid, parsed, resolveUserKeyFirst(req, now)))

\* server.js 227-322
normalizeStrict(req, now, random) ==
    LET apiToken == apiTokenOf(req.authorization)
        chatbotUuid == chatbotUuidOf(req.authorization)
        parsed == IF IsLegacyString(req.messages) THEN parseMessageString(req.messages[1].text)
                  ELSE parseMessageArrayStrict(req.messages)
    IN  IF authHeaderInvalid(req.authorization)
        THEN Rejected(401, MsgAuthMissing, "authentication_error", MsgExpectedFormat)
        ELSE IF ~uuidRegex(chatbotUuid)
        THEN Rejected(400, MsgInvalidUuid, "invalid_request_error", MsgUuidDetails)
        ELSE IF ~req.hasBody THEN Thrown(MissingBodyError)
        ELSE IF ~Truthy(parsed.userQuery)
        THEN Rejected(400, MsgNoUserMessage, "invalid_request_error", MsgNoUserDetails)
        ELSE Accepted(Normalized(apiToken, chatbotUuid, parsed,
                                 resolveUserKey(parsed.userKey, req, now, random)))

\* server.js 539-598 and 781-848
normalizeResilient(req, now, random) ==
    LET apiToken == apiTokenOf(req.authorization)
        chatbotUuid == chatbotUuidOf(req.authorization)
        parsed == IF IsLegacyString(req.messages) THEN parseMessageString(req.messages[1].text)
                  ELSE parseMessageArray(req.messages)
    IN  IF authHeaderInvalid(req.authorization) THEN Thrown(MsgAuthMissing)
        ELSE IF ~uuidRegex(chatbotUuid) THEN Thrown(MsgInvalidUuid)
        ELSE IF ~req.hasBody THEN Thrown(MissingBodyError)
        ELSE IF ~Truthy(parsed.userQuery) THEN Thrown(MsgNoUserMessage)
        ELSE Accepted(Normalized(apiToken, chatbotUuid, parsed,
                                 resolveUserKey(parsed.userKey, req, now, random)))

normalize(it, req, now, random) ==
    IF it = "first" THEN normalizeFirst(req, now)
    ELSE IF it = "strict" THEN normalizeStrict(req, now, random)
    ELSE normalizeResilient(req, now, random)

\* the outbound call of an accepted request (server.js 72-96, 324-349, 601-623, 851-876)
outboundCall(it, n) ==
    IF it = "first" THEN simplifiqueRequest(n, Truthy(n.customSystemPrompt), 0)
    ELSE simplifiqueRequest(n, Truthy(n.customSystemPrompt) /\ Truthy(Trim(n.customSystemPrompt)), 30000)

(***************************************************************************)
(* The outer catch blocks.  A handler result is [responded, response]:     *)
(* responded FALSE means an exception left the handler and nothing was     *)
(* sent.                                                                   *)
(***************************************************************************)
Sent(response) == [responded |-> TRUE, response |-> response]
Escaped == [responded |-> FALSE, response |-> ErrorEnvelope(0, Undefined, "", Undefined)]

\* server.js 130-166 and 389-420; hasResponse is error.response, data is error.response.data
catchStructured(hasResponse, status, data, message) ==
    IF hasResponse /\ status = 401 THEN
        (IF data.shape = "null" THEN Escaped
         ELSE Sent(ErrorEnvelope(401, OrElse(data.detail, MsgInvalidToken), "authentication_error", Undefined)))
    ELSE IF hasResponse /\ status = 400 THEN
        (IF data.shape = "null" THEN Escaped
         ELSE Sent(ErrorEnvelope(400, OrElse(data.message, MsgInvalidParams), "invalid_request_error", data.errors)))
    ELSE Sent(ErrorEnvelope(500, MsgInternal, "api_error", message))

\* server.js 680-706 and 933-961
catchEmbedded(it, req, message) ==
    Sent(Completion(500, IF req.hasBody THEN OrElse(req.model, DefaultModel) ELSE DefaultModel,
                    Undefined, ErrorContentPrefix \o OrElse(message, UnexpectedErrorText),
                    it = "resilientFC", <<>>, 0, 0, 0, Null))

\* the answer of a request that failed normalization
refuse(it, req, r) ==
    IF it \in ResilientIterations THEN catchEmbedded(it, req, r.message)
    ELSE IF r.thrown THEN catchStructured(FALSE, 0, NullBody, r.message)
    ELSE Sent(ErrorEnvelope(r.status, r.message, r.type, r.details))

(***************************************************************************)
(* The handler after the outbound call settled.                            *)
(***************************************************************************)
IsSuccess(outcome) == outcome.kind = "response" /\ outcome.status >= 200 /\ outcome.status < 300

\* promptTokens counted on a value that differs from run to run, the user key
promptTokensOfKey(n) == Ceil4(Len(n.userKey))

\* lastMessage?.content ? Math.ceil(lastMessage.content.length / 4) : Math.ceil(userQuery.length / 4)
promptTokens(n) == IF Truthy(n.lastContent) THEN Ceil4(Len(n.lastContent)) ELSE Ceil4(Len(n.userQuery))

\* the TypeError reading simplifiqueData.data.answer.length raises, <<>> when it raises none
answerTypeError(body) ==
    IF body.shape = "null" THEN TypeErrorMessage(<<"n","u","l","l">>, <<"d","a","t","a">>)
    ELSE IF ~body.hasData THEN TypeErrorMessage(<<"u","n","d","e","f","i","n","e","d">>, <<"a","n","s","w","e","r">>)
    ELSE IF body.answer \in {Undefined, Null} THEN TypeErrorMessage(ToText(body.answer), <<"l","e","n","g","t","h">>)
    ELSE <<>>

\* server.js 98-128
completeFirst(req, n, outcome) ==
    LET body == outcome.body
    IN  IF ~IsSuccess(outcome)
        THEN catchStructured(outcome.kind = "response", outcome.status, body, errorMessage(outcome))
        ELSE IF answerTypeError(body) # <<>>
        THEN catchStructured(FALSE, 0, NullBody, answerTypeError(body))
        ELSE Sent(Completion(200, OrElse(req.model, DefaultModel), FingerprintPrefix \o n.chatbotUuid,
                             body.answer, FALSE, <<>>,
                             Ceil4(Len(n.lastContent)), Ceil4(Len(body.answer)),
                             Ceil4(Len(n.lastContent) + Len(body.answer)), body.chat_id))

\* server.js 351-387
completeStrict(req, n, outcome) ==
    LET body == outcome.body
    IN  IF ~IsSuccess(outcome)
        THEN catchStructured(outcome.kind = "response", outcome.status, body, errorMessage(outcome))
        ELSE IF answerTypeError(body) # <<>>
        THEN catchStructured(FALSE, 0, NullBody, answerTypeError(body))
        ELSE Sent(Completion(200, OrElse(req.model, DefaultModel), FingerprintPrefix \o n.chatbotUuid,
                             body.answer, FALSE, <<>>,
                             promptTokens(n), Ceil4(Len(body.answer)),
                             promptTokens(n) + Ceil4(Len(body.answer)), body.chat_id))

\* absorbed without the inner catch: whatever body the failure carried
absorbedNothing(outcome) == outcome.body

\* simplifiqueData after the inner try/catch (server.js 611-634, 864-888)
absorbed(outcome) == IF IsSuccess(outcome) THEN outcome.body ELSE AnswerBody(ApologyAnswer, Null)

\* simplifiqueData?.data?.answer
answerOf(body) == IF body.shape = "object" /\ body.hasData THEN body.answer ELSE Undefined

\* (simplifiqueData && simplifiqueData.data && simplifiqueData.data.chat_id) || null
chatIdOf(body) == IF body.shape = "object" /\ body.hasData THEN OrElse(body.chat_id, Null) ELSE Null

\* completionTokens of the iteration with function calls (server.js 645-647)
completionTokensFC(content, answer) ==
    IF Truthy(content) THEN Ceil4(Len(content)) ELSE Ceil4(Len(OrElse(answer, <<>>)))

\* server.js 639-678: the completion built from the parsed answer
completionFC(req, n, body, parsed) ==
    Sent(Completion(200, OrElse(req.model, DefaultModel), FingerprintPrefix \o n.chatbotUuid,
                    parsed.content, TRUE, parsed.tool_calls,
                    promptTokens(n), completionTokensFC(parsed.content, answerOf(body)),
                    promptTokens(n) + completionTokensFC(parsed.content, answerOf(body)), chatIdOf(body)))

\* server.js 636-678
completeResilientFC(req, n, outcome) ==
    completionFC(req, n, absorbed(outcome), parseFunctionCall(OrElse(answerOf(absorbed(outcome)), <<>>)))

\* server.js 890-931
completeResilient(req, n, outcome) ==
    LET body == absorbed(outcome)
        answer == answerOf(body)
        completion == IF Truthy(answer) THEN Ceil4(Len(answer)) ELSE 0
    IN  Sent(Completion(200, OrElse(req.model, DefaultModel), FingerprintPrefix \o n.chatbotUuid,
                        IF Truthy(answer) THEN answer ELSE NoAnswerContent, FALSE, <<>>,
                        promptTokens(n), completion, promptTokens(n) + completion, chatIdOf(body)))

(***************************************************************************)
(* The draft (part_000).  customSystemPrompt, userQuery and userKey are    *)
(* assigned without a declaration, so they are properties of the global    *)
(* object: g is their value when the handler starts, and the handler hands *)
(* back what it leaves in them.  lastMessage is read but never assigned.   *)
(***************************************************************************)
NoGlobals == [customSystemPrompt |-> Undeclared, userQuery |-> Undeclared, userKey |-> Undeclared]

NoCapture == [ok |-> FALSE, text |-> <<>>]

\* contextoContent.match(/Query:\s*([\s\S]*?)(?=user_key:|$)/): [ok, the capture trimmed]
queryMatchDraft(contextoContent) ==
    LET q == IndexOf(contextoContent, QueryMarkerDraft, 1)
        a == SkipSpaces(contextoContent, q + Len(QueryMarkerDraft))
        u == IndexOf(contextoContent, UserKeyMarker, a)
    IN  IF q = 0 THEN NoCapture
        ELSE [ok |-> TRUE,
              text |-> Trim(SubSeq(contextoContent, a, IF u = 0 THEN Len(contextoContent) ELSE u - 1))]

\* contextoContent.match(/user_key:\s*(.+?)$/): [ok, the capture trimmed].  Without the
\* m flag $ is the end of the text and . matches no line break, so the pattern matches
\* at the first user_key: whose remainder is not empty and holds no line break after
\* the white space \s* can take
userKeyMatchDraft(contextoContent) ==
    LET n == Len(contextoContent)
        from(p) == p + Len(UserKeyMarker)
        first(p) == IF SkipSpaces(contextoContent, from(p)) > n THEN n ELSE SkipSpaces(contextoContent, from(p))
        at == {p \in 1..n :
                  /\ MatchAt(contextoContent, UserKeyMarker, p)
                  /\ from(p) <= n
                  /\ \A i \in first(p)..n : contextoContent[i] \notin {"\n", "\r"}}
    IN  IF at = {} THEN NoCapture
        ELSE [ok |-> TRUE, text |-> Trim(SubSeq(contextoContent, from(SetMin(at)), n))]

\* messageString.match(/Human:\s*([\s\S]*?)$/): [ok, the capture trimmed]
humanMatchDraft(messageString) ==
    LET h == IndexOf(messageString, HumanMarker, 1)
    IN  IF h = 0 THEN NoCapture
        ELSE [ok |-> TRUE, text |-> Trim(SubSeq(messageString, h + Len(HumanMarker), Len(messageString)))]

\* part_000 72-95: the legacy branch assigns the variables whose pattern matches and
\* leaves the others as they were
assignMatchesDraft(messageString, g) ==
    LET ctx == contextoMatch(messageString)
        q == IF ctx.ok THEN queryMatchDraft(ctx.contextoContent) ELSE NoCapture
        k == IF ctx.ok THEN userKeyMatchDraft(ctx.contextoContent) ELSE NoCapture
    IN  [customSystemPrompt |-> IF IndexOf(messageString, SystemMarker, 1) # 0
                                THEN systemMatch(messageString) ELSE g.customSystemPrompt,
         userQuery |-> IF q.ok THEN q.text ELSE g.userQuery,
         userKey |-> IF k.ok THEN k.text ELSE g.userKey]

\* part_000 97-102: the fallback on Human: when the variables g1 hold no query.  It
\* reads userQuery, which is an error when it is undeclared
humanFallbackDraft(messageString, g1) ==
    IF g1.userQuery # Undeclared /\ ~Truthy(g1.userQuery) /\ humanMatchDraft(messageString).ok
    THEN [g1 EXCEPT !.userQuery = humanMatchDraft(messageString).text]
    ELSE g1

\* part_000 67-102: the variables after the legacy branch
parseMessageStringDraft(messageString, g) ==
    humanFallbackDraft(messageString, assignMatchesDraft(messageString, g))

\* the outcome of normalization together with the variables it leaves behind
DraftResult(r, g) == [r |-> r, g |-> g]

\* part_000 129-138: the call's parameters from the variables g2, the user key settled
parametersDraft(req, g2) ==
    IF g2.customSystemPrompt = Undeclared
    THEN DraftResult(Thrown(ReferenceErrorMessage(<<"c","u","s","t","o","m","S","y","s","t","e","m","P","r","o","m","p","t">>)), g2)
    ELSE DraftResult(Accepted(Normalized(apiTokenOf(req.authorization), chatbotUuidOf(req.authorization),
                                         [userQuery |-> g2.userQuery,
                                          customSystemPrompt |-> g2.customSystemPrompt,
                                          lastContent |-> Undefined],
                                         g2.userKey)), g2)

\* part_000 106-124: the query check and the fallbacks of the user key, on the variables
\* g1 the message handling left
validateDraft(req, g1, now, random) ==
    IF g1.userQuery = Undeclared
    THEN DraftResult(Thrown(ReferenceErrorMessage(<<"u","s","e","r","Q","u","e","r","y">>)), g1)
    ELSE IF ~Truthy(g1.userQuery)
    THEN DraftResult(Rejected(400, MsgNoUserMessage, "invalid_request_error", MsgNoUserDetails), g1)
    ELSE IF g1.userKey = Undeclared
    THEN DraftResult(Thrown(ReferenceErrorMessage(<<"u","s","e","r","K","e","y">>)), g1)
    ELSE parametersDraft(req, IF Truthy(g1.userKey) THEN g1
                              ELSE [g1 EXCEPT !.userKey = OrElse(req.user, OrElse(req.xUserKey,
                                                  OrElse(req.xUserId, generatedKey(now, random))))])

\* part_000 24-138
normalizeDraft(req, g, now, random) ==
    IF authHeaderInvalid(req.authorization)
    THEN DraftResult(Rejected(401, MsgAuthMissing, "authentication_error", MsgExpectedFormat), g)
    ELSE IF ~uuidRegex(chatbotUuidOf(req.authorization))
    THEN DraftResult(Rejected(400, MsgInvalidUuid, "invalid_request_error", MsgUuidDetails), g)
    ELSE IF ~req.hasBody THEN DraftResult(Thrown(MissingBodyError), g)
    ELSE validateDraft(req, IF IsLegacyString(req.messages)
                            THEN parseMessageStringDraft(req.messages[1].text, g) ELSE g,
                       now, random)

\* normalization of iteration it when the undeclared variables hold g
handle(it, req, g, now, random) ==
    IF it = "draft" THEN normalizeDraft(req, g, now, random)
    ELSE DraftResult(normalize(it, req, now, random), g)

\* part_000 159-245: the response object reads lastMessage, which nothing assigns, after
\* simplifiqueData.data.answer; either error is rethrown to the outer catch
completeDraft(req, n, outcome) ==
    LET body == outcome.body
    IN  IF ~IsSuccess(outcome)
        THEN catchStructured(outcome.kind = "response", outcome.status, body, errorMessage(outcome))
        ELSE IF body.shape = "null" \/ ~body.hasData
        THEN catchStructured(FALSE, 0, NullBody, answerTypeError(body))
        ELSE catchStructured(FALSE, 0, NullBody,
                             ReferenceErrorMessage(<<"l","a","s","t","M","e","s","s","a","g","e">>))

complete(it, req, n, outcome) ==
    IF it = "first" THEN completeFirst(req, n, outcome)
    ELSE IF it = "strict" THEN completeStrict(req, n, outcome)
    ELSE IF it = "resilientFC" THEN completeResilientFC(req, n, outcome)
    ELSE IF it = "resilient" THEN completeResilient(req, n, outcome)
    ELSE completeDraft(req, n, outcome)

(***************************************************************************)
(* The requests clients send and the ways the backend answers.             *)
(***************************************************************************)
Request(authorization, hasBody, messages, model, user, xUserKey, xUserId) ==
    [authorization |-> authorization, hasBody |-> hasBody, messages |-> messages,
     model |-> model, user |-> user, xUserKey |-> xUserKey, xUserId |-> xUserId]

MessageObject(role, content) == [type |-> "object", role |-> role, content |-> content, text |-> <<>>]
MessageString(text) == [type |-> "string", role |-> "undefined", content |-> Undefined, text |-> text]

Run(c, n) == [i \in 1..n |-> c]
UuidOf(c, d) == Run(c, 8) \o <<"-">> \o Run(d, 4) \o <<"-">> \o Run(c, 4) \o <<"-">> \o Run(d, 4) \o <<"-">> \o Run(c, 12)

GoodUuid == UuidOf("a", "0")
GoodUuids == {GoodUuid, UuidOf("F", "9"), UuidOf("0", "c")}
BadUuids ==
    { UuidOf("g", "0"), SubSeq(GoodUuid, 1, 35), GoodUuid \o <<"0">>, [GoodUuid EXCEPT ![9] = "a"],
      <<" ">> \o SubSeq(GoodUuid, 2, 36), <<"a","b","c">>, <<>> }

ApiToken == <<"t","k">>

AuthHeaders ==
    {Undefined, <<>>, BearerPrefix, BearerPrefix \o ApiToken,
     <<"B","a","s","i","c"," ">> \o ApiToken \o <<":">> \o GoodUuid,
     <<"b","e","a","r","e","r"," ">> \o ApiToken \o <<":">> \o GoodUuid,
     BearerPrefix \o <<":">> \o GoodUuid,
     BearerPrefix \o <<" ">> \o ApiToken \o <<":">> \o GoodUuid \o <<" ">>,
     BearerPrefix \o ApiToken \o <<":">> \o GoodUuid \o <<":","e","x","t","r","a">>,
     BearerPrefix \o ApiToken \o <<":","x",":">> \o GoodUuid}
        \cup {BearerPrefix \o ApiToken \o <<":">> \o u : u \in GoodUuids \cup BadUuids}

GoodAuth == BearerPrefix \o ApiToken \o <<":">> \o GoodUuid

Roles == {"system", "user", "assistant"}
Contents == {<<>>, <<" ","h","i"," ","\n">>, <<" "," ">>}
MessageObjects == {MessageObject(role, content) : role \in Roles, content \in Contents}
MessageArrays == UNION {[1..k -> MessageObjects] : k \in 0..MaxMsgs}
PlainMessages == <<MessageObject("user", <<"h","i">>)>>

SystemSections == {<<>>, <<"S","y","s","t","e","m",":"," ","B","e",".","\n">>, <<"S","y","s","t","e","m",":"," "," ","\n">>}
ContextSections ==
    { <<"h","e","l","l","o">>,
      <<"H","u","m","a","n",":"," ","h","e","y"," ","y","o","u","\n","b","y","e">>,
      <<"C","o","n","t","e","x","t","o"," ","E","x","t","r","a"," ","H","u","m","a","n",":","\n","Q","u","e","r","y",":"," ","h","i","?","\n","u","s","e","r","_","k","e","y",":"," ","u","4","2">>,
      <<"C","o","n","t","e","x","t","o"," ","E","x","t","r","a"," ","H","u","m","a","n",":","\n","Q","u","e","r","y",":"," ","h","i","?">>,
      <<"C","o","n","t","e","x","t","o"," ","E","x","t","r","a"," ","H","u","m","a","n",":","\n","u","s","e","r","_","k","e","y",":"," ","u","4","2">>,
      <<"C","o","n","t","e","x","t","o"," ","E","x","t","r","a"," ","H","u","m","a","n",":","\n","q","u","e","r","y",":"," ","H","i"," ","\n"," ","U","S","E","R","_","K","E","Y",":"," "," ","k","9"," ","\n","r","e","s","t">>,
      <<"C","o","n","t","e","x","t","o"," ","E","x","t","r","a","\n","H","u","m","a","n",":","\n","Q","u","e","r","y",":","\n","u","s","e","r","_","k","e","y",":">> }
\* the documented shape "System: S\nContexto Extra Human:\nQuery: Q\nuser_key: K"
LegacyForm(S, Q, K) ==
    <<"S","y","s","t","e","m",":"," ">> \o S \o <<"\n","C","o","n","t","e","x","t","o"," ","E","x","t","r","a"," ","H","u","m","a","n",":","\n","Q","u","e","r","y",":"," ">> \o Q \o <<"\n","u","s","e","r","_","k","e","y",":"," ">> \o K
FormSystems == {<<"B","e"," ","h","e","l","p","f","u","l",".">>, <<>>}
FormQueries == {<<"W","h","a","t","'","s"," ","u","p","?"," ">>, <<>>}
FormKeys == {<<"u","4","2">>, <<" ","k"," ","9"," ">>}
FormStrings == {LegacyForm(S, Q, K) : S \in FormSystems, Q \in FormQueries, K \in FormKeys}

LegacyStrings == {sys \o ctx : sys \in SystemSections, ctx \in ContextSections} \cup FormStrings

Models == {Undefined, <<>>, <<"g","p","t","-","4">>, <<"c","u","s","t","o","m","-","a","g","e","n","t","-","7">>}
Users == {Undefined, <<"u","1">>}
UserKeyHeaders == {Undefined, <<"k","1">>}
UserIdHeaders == {Undefined, <<"i","1">>}

\* requests that vary one part of the input around a plain request
Requests ==
    {Request(a, TRUE, PlainMessages, Undefined, Undefined, Undefined, Undefined) : a \in AuthHeaders}
    \cup {Request(a, FALSE, <<>>, Undefined, Undefined, Undefined, Undefined) : a \in {Undefined, GoodAuth}}
    \cup {Request(GoodAuth, TRUE, m, Undefined, <<"u","1">>, Undefined, Undefined) : m \in MessageArrays}
    \cup {Request(GoodAuth, TRUE, <<MessageString(t)>>, m, u, Undefined, Undefined) :
              t \in LegacyStrings, m \in {Undefined, <<"c","u","s","t","o","m","-","a","g","e","n","t","-","7">>}, u \in Users}
    \cup {Request(GoodAuth, TRUE, PlainMessages, m, u, k, i) :
              m \in Models, u \in Users, k \in UserKeyHeaders, i \in UserIdHeaders}

\* the requests posted to the draft, which never looks into an array of message objects
DraftRequests ==
    {Request(a, TRUE, PlainMessages, Undefined, Undefined, Undefined, Undefined) : a \in AuthHeaders}
    \cup {Request(a, FALSE, <<>>, Undefined, Undefined, Undefined, Undefined) : a \in {Undefined, GoodAuth}}
    \cup {Request(GoodAuth, TRUE, <<>>, Undefined, Undefined, Undefined, Undefined)}
    \cup {Request(GoodAuth, TRUE, <<MessageString(t)>>, Undefined, u, Undefined, Undefined) :
              t \in LegacyStrings, u \in Users}

\* the requests a client may post to iteration it
RequestsOf(it) == IF it = "draft" THEN DraftRequests ELSE Requests

\* Date.now() and Math.random().toString(36) as the handler reads them; the latter is
\* "0." followed by the base-36 digits of the fraction, which are as few as the value needs
ClockReadings == {<<"1","7","0","0","0","0","0","0","0","0","0","0","0">>}
RandomRenderings == {<<"0",".","4","f","z","y","o","8","2","m","v","y","r">>, <<"0",".","i">>, <<"0">>}

PlainAnswers == {<<>>, <<"o","k">>, <<"H","e","l","l","o">>}
FunctionCallAnswers ==
    { <<"[","F","U","N","C","T","I","O","N","_","C","A","L","L","]","\n","f","\n","{","}">>,
      <<"[","F","U","N","C","T","I","O","N","_","C","A","L","L","]","\n","g","e","t","_","w","\n","{","\"","a","\"",":","1","}">>,
      <<"[","F","U","N","C","T","I","O","N","_","C","A","L","L","]","\n","g","e","t","_","w","\n","{","\"","a","\"",":","1","}","\n">>,
      <<"[","F","U","N","C","T","I","O","N","_","C","A","L","L","]","\n","f","\n","{","a","}">>,
      <<"[","F","U","N","C","T","I","O","N","_","C","A","L","L","]","\n","f","\n","{","\"","a","\"",":","1",",","}">>,
      <<"[","F","U","N","C","T","I","O","N","_","C","A","L","L","]","\n","f","\n","a"," ","b">>,
      <<"[","F","U","N","C","T","I","O","N","_","C","A","L","L","]","\n","g","e","t","_","w">>,
      <<"[","F","U","N","C","T","I","O","N","_","C","A","L","L","]","\n","f">>,
      <<"[","F","U","N","C","T","I","O","N","_","C","A","L","L","]","\n","f","\n">>,
      <<"x","\n","[","F","U","N","C","T","I","O","N","_","C","A","L","L","]","\n","f","\n","{","}">>,
      <<"x"," ","[","F","U","N","C","T","I","O","N","_","C","A","L","L","]","\n","f","\n","{","}">>,
      <<"[","F","U","N","C","T","I","O","N","_","C","A","L","L","]"," ","f"," ","{","}">>,
      <<"[","F","U","N","C","T","I","O","N","_","C","A","L","L","]","\n","{","}">>,
      <<"[","F","U","N","C","T","I","O","N","_","C","A","L","L","]","\n","f","\n","{","\"","a","\"",":","{","\"","b","\"",":","\"","c","\"","}","}"," ">> }
Answers == PlainAnswers \cup FunctionCallAnswers \cup {ApologyAnswer}

ChatId == <<"c","h","a","t","-","9">>
\* an opaque JSON value for the errors list of a 400 body
UpstreamErrors == <<"[errors]">>

SuccessBodies ==
    {AnswerBody(a, ChatId) : a \in Answers}
    \cup {AnswerBody(<<"o","k">>, Null), AnswerBody(<<"o","k">>, Undefined),
          AnswerBody(Undefined, ChatId), AnswerBody(Null, ChatId), EmptyBody, NullBody}

ErrorBodies ==
    { NullBody, EmptyBody,
      UpstreamBody("object", FALSE, Undefined, Undefined, <<"b","a","d"," ","t","o","k","e","n">>, Undefined, Undefined),
      UpstreamBody("object", FALSE, Undefined, Undefined, Undefined, <<"b","a","d"," ","r","e","q","u","e","s","t">>, UpstreamErrors) }

ErrorStatuses == {400, 401, 500}

(***************************************************************************)
(* The state machine.  Each slot is one connection on which a client posts *)
(* a request; the handler runs up to its await, and resumes when the       *)
(* outbound call settles.                                                  *)
(***************************************************************************)
Slots == {1, 2}

VARIABLES
    iteration,   \* which version of the handler the process runs
    pc,          \* per slot: "idle", "awaiting" (suspended in axios.post), "done", "failed"
    request,     \* per slot: the request being served
    normalized,  \* per slot: the handler's locals across the await
    calls,       \* per slot: the outbound calls issued for the request
    outcome,     \* per slot: how the outbound call ended
    responses,   \* per slot: the responses sent to the client
    globals      \* the undeclared variables of the draft, shared by all requests

vars == <<iteration, pc, request, normalized, calls, outcome, responses, globals>>

NoRequest == Request(Undefined, FALSE, <<>>, Undefined, Undefined, Undefined, Undefined)

Init ==
    /\ iteration \in Iterations
    /\ pc = [s \in Slots |-> "idle"]
    /\ request = [s \in Slots |-> NoRequest]
    /\ normalized = [s \in Slots |-> NoNormalized]
    /\ calls = [s \in Slots |-> <<>>]
    /\ outcome = [s \in Slots |-> NoOutcome]
    /\ responses = [s \in Slots |-> <<>>]
    /\ globals = NoGlobals

\* the state of slot s after a handler result
Finish(s, result) ==
    /\ pc' = [pc EXCEPT ![s] = IF result.responded THEN "done" ELSE "failed"]
    /\ responses' = [responses EXCEPT ![s] = IF result.responded THEN Append(@, result.response) ELSE @]

\* the handler, having normalised req with result r and left the globals g, answers or suspends in the outbound call
Proceed(s, req, r, g) ==
    /\ request' = [request EXCEPT ![s] = req]
    /\ globals' = g
    /\ IF r.ok
       THEN /\ normalized' = [normalized EXCEPT ![s] = r.n]
            /\ calls' = [calls EXCEPT ![s] = Append(@, outboundCall(iteration, r.n))]
            /\ pc' = [pc EXCEPT ![s] = "awaiting"]
            /\ UNCHANGED responses
       ELSE /\ Finish(s, refuse(iteration, req, r))
            /\ UNCHANGED <<normalized, calls>>
    /\ UNCHANGED <<iteration, outcome>>

\* the handler's run on req, as a pair of its result and the globals it leaves
Handled(s, req, h) == Proceed(s, req, h.r, h.g)

\* a request arrives: the handler runs until it answers or suspends in the outbound call
Receive(s, req, now, random) ==
    /\ pc[s] = "idle"
    /\ Handled(s, req, handle(iteration, req, globals, now, random))

\* Settle with one retry: a failed call is issued a second time before the handler goes on
SettleRetrying(s, o) ==
    /\ pc[s] = "awaiting"
    /\ outcome' = [outcome EXCEPT ![s] = o]
    /\ IF IsSuccess(o) \/ Len(calls[s]) >= 2
       THEN /\ Finish(s, complete(iteration, request[s], normalized[s], o))
            /\ UNCHANGED calls
       ELSE /\ calls' = [calls EXCEPT ![s] = Append(@, @[1])]
            /\ UNCHANGED <<pc, responses>>
    /\ UNCHANGED <<iteration, request, normalized, globals>>

\* the outbound call settles with o and the handler runs to its end
Settle(s, o) ==
    /\ pc[s] = "awaiting"
    /\ outcome' = [outcome EXCEPT ![s] = o]
    /\ Finish(s, complete(iteration, request[s], normalized[s], o))
    /\ UNCHANGED <<iteration, request, normalized, calls, globals>>

\* the backend answers 2xx
BackendAnswers(s, body) == Settle(s, Outcome("response", 200, body))

\* the backend answers with an error status
BackendRejects(s, status, body) == Settle(s, Outcome("response", status, body))

\* the 30-second timeout of the call fires (the first iteration configures none)
CallTimesOut(s) ==
    /\ pc[s] = "awaiting"
    /\ calls[s][Len(calls[s])].timeout > 0
    /\ Settle(s, Outcome("timeout", 0, NullBody))

\* the connection to the backend fails
NetworkFails(s) == Settle(s, Outcome("network", 0, NullBody))

\* the request/response cycle is over and the connection serves the next request
Forget(s) ==
    /\ pc[s] \in {"done", "failed"}
    /\ pc' = [pc EXCEPT ![s] = "idle"]
    /\ request' = [request EXCEPT ![s] = NoRequest]
    /\ normalized' = [normalized EXCEPT ![s] = NoNormalized]
    /\ calls' = [calls EXCEPT ![s] = <<>>]
    /\ outcome' = [outcome EXCEPT ![s] = NoOutcome]
    /\ responses' = [responses EXCEPT ![s] = <<>>]
    /\ UNCHANGED <<iteration, globals>>

\* one client, served on slot 1
Next ==
    \/ \E req \in RequestsOf(iteration), now \in ClockReadings, random \in RandomRenderings :
           Receive(1, req, now, random)
    \/ \E body \in SuccessBodies : BackendAnswers(1, body)
    \/ \E status \in ErrorStatuses, body \in ErrorBodies : BackendRejects(1, status, body)
    \/ CallTimesOut(1)
    \/ NetworkFails(1)
    \/ Forget(1)

Spec == Init /\ [][Next]_vars

(***************************************************************************)
(* Two clients at once: the handlers of both slots interleave at their     *)
(* await, as they do on the event loop.                                    *)
(***************************************************************************)
\* a request with only an Authorization header and messages
SimpleRequest(authorization, messages) ==
    Request(authorization, TRUE, messages, Undefined, Undefined, Undefined, Undefined)

ConcRequests ==
    { SimpleRequest(GoodAuth, PlainMessages),
      SimpleRequest(GoodAuth, <<MessageObject("system", <<"B","e"," ","b","r","i","e","f",".">>), MessageObject("user", <<"h","e","l","l","o">>)>>),
      SimpleRequest(GoodAuth, <<MessageString(LegacyForm(<<"B","e"," ","h","e","l","p","f","u","l",".">>, <<"W","h","a","t","'","s"," ","u","p","?">>, <<"u","4","2">>))>>),
      SimpleRequest(GoodAuth, <<MessageString(<<"H","u","m","a","n",":"," ","h","e","y">>)>>),
      SimpleRequest(Undefined, PlainMessages) }

ConcBodies == {AnswerBody(<<"o","k">>, ChatId), AnswerBody(<<"[","F","U","N","C","T","I","O","N","_","C","A","L","L","]","\n","f","\n","{","}">>, ChatId)}

\* the steps of the client and the backend of slot s
Serve(s) ==
    \/ \E req \in ConcRequests, now \in ClockReadings, random \in RandomRenderings :
           Receive(s, req, now, random)
    \/ \E body \in ConcBodies : BackendAnswers(s, body)
    \/ BackendRejects(s, 500, EmptyBody)
    \/ CallTimesOut(s)
    \/ NetworkFails(s)
    \/ Forget(s)

NextConc == \E s \in Slots : Serve(s)

SpecConc == Init /\ [][NextConc]_vars

(***************************************************************************)
(* The timer of a call that has a timeout fires if the call is still       *)
(* pending; nothing obliges the backend to answer.                         *)
(***************************************************************************)
NextLive == Serve(1)

LiveSpec == Init /\ [][NextLive]_vars /\ WF_vars(CallTimesOut(1))

(***************************************************************************)
(* Properties.                                                             *)
(***************************************************************************)
\* the request of slot s got past normalization: its outbound call was issued
Passed(s) == calls[s] # <<>>

\* the handler of slot s has ended
Ended(s) == pc[s] \in {"done", "failed"}

\* the one response of slot s (meaningful when pc[s] = "done")
Response(s) == responses[s][1]

\* slot s ended with a completion for a request that passed normalization
Completed(s) == pc[s] = "done" /\ Passed(s) /\ Response(s).kind = "completion"

\* the three checks of C1 on the request of slot s
ChecksPass(s) ==
    /\ StartsWith(request[s].authorization, BearerPrefix)
    /\ uuidRegex(chatbotUuidOf(request[s].authorization))
    /\ normalized[s].userQuery # <<>>

\* C1: an outbound call is made only for a request whose Authorization header starts
\* with "Bearer ", whose chatbotUuid matches the 8-4-4-4-12 hexadecimal grammar and
\* from which a non-empty query was extracted; a request failing one of the three
\* checks is answered with an error and never reaches the backend.
C1_CallOnlyIfValid ==
    \A s \in Slots :
        pc[s] # "idle" =>
            /\ Passed(s) => ChecksPass(s)
            /\ ~ChecksPass(s) =>
                   /\ calls[s] = <<>>
                   /\ pc[s] = "done"
                   /\ Len(responses[s]) = 1
                   /\ Response(s).status >= 400

\* <digits>-<exactly nine base-36 characters>
IsBase36(c) == c \in Range(Digits) \cup Range(LowerLetters)
IsGeneratedKey(k) ==
    /\ StartsWith(k, KeyPrefix)
    /\ LET rest == SubSeq(k, Len(KeyPrefix) + 1, Len(k))
           dash == IndexOf(rest, <<"-">>, 1)
       IN  /\ dash > 1
           /\ \A i \in 1..(dash - 1) : rest[i] \in Range(Digits)
           /\ Len(rest) - dash = 9
           /\ \A i \in (dash + 1)..Len(rest) : IsBase36(rest[i])

\* the user_key: capture of the legacy string of a request, '' for an array request
EmbeddedKey(req) ==
    IF IsLegacyString(req.messages) /\ contextoMatch(req.messages[1].text).ok
    THEN userKeyMatch(contextoMatch(req.messages[1].text).contextoContent)
    ELSE <<>>

\* C2: the user key sent upstream is the first non-empty value among the embedded
\* user_key, the model when it is not a known model, the user field, the x-user-key
\* header and the x-user-id header, and otherwise a generated key of the form
\* n8n-<unix-millis>-<9-char-base36-random> (iterations with the user-key block).
C2_UserKeyPrecedence ==
    \A s \in Slots :
        (Passed(s) /\ iteration # "first") =>
            LET req == request[s]
                key == calls[s][1].user_key
            IN  IF EmbeddedKey(req) # <<>> THEN key = EmbeddedKey(req)
                ELSE IF Truthy(req.model) /\ req.model \notin KNOWN_MODELS THEN key = req.model
                ELSE IF Truthy(req.user) THEN key = req.user
                ELSE IF Truthy(req.xUserKey) THEN key = req.xUserKey
                ELSE IF Truthy(req.xUserId) THEN key = req.xUserId
                ELSE IsGeneratedKey(key) /\ key # ToText(req.model)

\* C3: in the resilient iterations a failed outbound call (error status, timeout or
\* network error) of a request that passed normalization yields HTTP 200 with a
\* completion whose content is the fixed apology, whose simplifique_chat_id is null
\* and whose completion_tokens is ceil(len(apology)/4).
C3_ResilientApology ==
    \A s \in Slots :
        (iteration \in ResilientIterations /\ Ended(s) /\ Passed(s) /\ ~IsSuccess(outcome[s])) =>
            /\ pc[s] = "done"
            /\ Len(responses[s]) = 1
            /\ Response(s).kind = "completion"
            /\ Response(s).status = 200
            /\ Response(s).content = ApologyAnswer
            /\ Response(s).simplifique_chat_id = Null
            /\ Response(s).completion_tokens = Ceil4(Len(ApologyAnswer))

C3_Witness ==
    /\ iteration \in ResilientIterations
    /\ pc[1] = "done"
    /\ Passed(1)
    /\ outcome[1].kind = "timeout"
    /\ Response(1).content = ApologyAnswer
    /\ Response(1).completion_tokens = 16

\* C4: every request ends with exactly one response, a completion object or an error
\* envelope, on every path.
C4_ExactlyOneResponse ==
    \A s \in Slots :
        Ended(s) =>
            /\ Len(responses[s]) = 1
            /\ Response(s).kind \in {"completion", "error"}

\* C5: in the iterations that surface upstream failures, upstream 401 gives an
\* authentication_error envelope (upstream detail or the fixed default), upstream 400
\* an invalid_request_error envelope with the upstream error list as details, and any
\* other status, timeout or network failure a generic api_error envelope carrying the
\* raw error message.
C5_StrictErrorMapping ==
    \A s \in Slots :
        (iteration \in {"first", "strict"} /\ Ended(s) /\ Passed(s) /\ ~IsSuccess(outcome[s])) =>
            LET o == outcome[s]
                detail == IF o.body.shape = "object" THEN o.body.detail ELSE Undefined
                errors == IF o.body.shape = "object" THEN o.body.errors ELSE Undefined
            IN  /\ Len(responses[s]) = 1
                /\ Response(s).kind = "error"
                /\ IF o.kind = "response" /\ o.status = 401
                   THEN /\ Response(s).type = "authentication_error"
                        /\ Response(s).message = OrElse(detail, MsgInvalidToken)
                   ELSE IF o.kind = "response" /\ o.status = 400
                   THEN /\ Response(s).type = "invalid_request_error"
                        /\ Response(s).details = errors
                   ELSE /\ Response(s).type = "api_error"
                        /\ Response(s).details = errorMessage(o)

\* C6: in every completion for a request that passed normalization, completion_tokens
\* is ceil(len(T)/4) for the text T placed in message.content.
C6_CompletionTokensOfContent ==
    \A s \in Slots :
        Completed(s) => Response(s).completion_tokens = Ceil4(Len(Response(s).content))

\* C7: in every completion for a request that passed normalization, prompt_tokens is
\* ceil(len(query)/4) for the query text sent upstream.
C7_PromptTokensOfQuery ==
    \A s \in Slots :
        Completed(s) => Response(s).prompt_tokens = Ceil4(Len(calls[s][1].query))

\* C8: in every completion, total_tokens = prompt_tokens + completion_tokens.
C8_TotalIsSum ==
    \A s \in Slots :
        (pc[s] = "done" /\ Response(s).kind = "completion") =>
            Response(s).total_tokens = Response(s).prompt_tokens + Response(s).completion_tokens

\* the answer text the function-call parser is given for slot s
ParsedAnswer(s) == OrElse(answerOf(absorbed(outcome[s])), <<>>)

\* t starts with '{', ends with '}' and is not parseable JSON
InvalidJsonObjectText(t) == t # <<>> /\ t[1] = "{" /\ t[Len(t)] = "}" /\ ~JSONParses(t)

ToolCall(name, arguments) ==
    [id |-> ToolId, type |-> "function", function |-> [name |-> name, arguments |-> arguments]]

\* C9 as stated: when the answer matches the function-call grammar the completion has
\* content "" and exactly one tool call (id "tool1", type "function") whose name is the
\* captured name and whose arguments are the captured argument text verbatim; when
\* the pattern does not match, content is the raw answer and there is no tool call.
C9_ToolCallVerbatim ==
    \A s \in Slots :
        (iteration = "resilientFC" /\ Completed(s)) =>
            LET m == funcRegex(ParsedAnswer(s))
            IN  IF m.ok
                THEN /\ Response(s).content = <<>>
                     /\ Response(s).tool_calls = <<ToolCall(m.name, m.args)>>
                ELSE /\ Response(s).content = ParsedAnswer(s)
                     /\ Response(s).tool_calls = <<>>

\* C9 amended: when the answer matches the grammar and its trimmed argument text is not
\* a brace-delimited text that fails JSON parsing, the completion has content "" and
\* exactly one tool call (id "tool1", type "function") whose name is the captured name
\* and whose arguments are the captured argument text trimmed of surrounding white
\* space; when the pattern does not match, content is the raw answer and there is no
\* tool call.
C9_ToolCallTrimmed ==
    \A s \in Slots :
        (iteration = "resilientFC" /\ Completed(s)) =>
            LET m == funcRegex(ParsedAnswer(s))
            IN  /\ (m.ok /\ ~InvalidJsonObjectText(Trim(m.args))) =>
                       /\ Response(s).content = <<>>
                       /\ Response(s).hasToolCalls
                       /\ Response(s).tool_calls = <<ToolCall(m.name, Trim(m.args))>>
                /\ ~m.ok =>
                       /\ Response(s).content = ParsedAnswer(s)
                       /\ Response(s).tool_calls = <<>>

\* a tool call was emitted for an answer whose captured argument text ends in white space
C9_Witness ==
    /\ iteration = "resilientFC"
    /\ Completed(1)
    /\ funcRegex(ParsedAnswer(1)).ok
    /\ funcRegex(ParsedAnswer(1)).args # Trim(funcRegex(ParsedAnswer(1)).args)
    /\ Trim(funcRegex(ParsedAnswer(1)).args) # <<>>
    /\ Len(Response(1).tool_calls) = 1

\* C10: when the answer matches the marker and name but the trimmed argument text
\* starts with '{', ends with '}' and is not parseable JSON, the whole original answer
\* is returned unchanged as content and no tool call is emitted.
C10_InvalidJsonIsPlainContent ==
    \A s \in Slots :
        (iteration = "resilientFC" /\ Completed(s)) =>
            LET m == funcRegex(ParsedAnswer(s))
            IN  (m.ok /\ InvalidJsonObjectText(Trim(m.args))) =>
                    /\ Response(s).content = ParsedAnswer(s)
                    /\ Response(s).tool_calls = <<>>

C10_Witness ==
    /\ iteration = "resilientFC"
    /\ Completed(1)
    /\ funcRegex(ParsedAnswer(1)).ok
    /\ InvalidJsonObjectText(Trim(funcRegex(ParsedAnswer(1)).args))
    /\ Response(1).content = ParsedAnswer(1)
    /\ Response(1).content # <<>>

\* C11: in the resilient iterations every normalization failure (missing or malformed
\* Authorization header, invalid UUID, no user message) is answered with HTTP status
\* 200 and a completion object whose assistant content embeds the error message.
C11_EmbeddedErrorIs200 ==
    \A s \in Slots :
        (iteration \in ResilientIterations /\ Ended(s) /\ ~Passed(s) /\ request[s].hasBody) =>
            /\ pc[s] = "done"
            /\ Len(responses[s]) = 1
            /\ Response(s).kind = "completion"
            /\ Response(s).status = 200
            /\ \E m \in {MsgAuthMissing, MsgInvalidUuid, MsgNoUserMessage} :
                   IndexOf(Response(s).content, m, 1) > 0

\* the request of slot s carries an array of message objects and passes the header checks
IsArrayRequest(s) ==
    /\ pc[s] # "idle"
    /\ request[s].hasBody
    /\ ~IsLegacyString(request[s].messages)
    /\ \A i \in 1..Len(request[s].messages) : request[s].messages[i].type = "object"
    /\ ~authHeaderInvalid(request[s].authorization)
    /\ uuidRegex(chatbotUuidOf(request[s].authorization))

\* the indices of the messages with non-empty content, and of those with role "system"
NonEmptyMessages(messages) == {i \in 1..Len(messages) : messages[i].content # <<>>}
SystemMessages(messages) == {i \in NonEmptyMessages(messages) : messages[i].role = "system"}

\* C12: for an array request the system prompt is the (trimmed) content of the first
\* message with role "system" and non-empty content, empty if there is none, and the
\* query is the trimmed content of the last message with non-empty content, whatever
\* its role; messages with empty content are skipped when choosing the query.
C12_ArrayExtraction ==
    \A s \in Slots :
        (iteration \in {"strict", "resilientFC", "resilient"} /\ IsArrayRequest(s)) =>
            LET messages == request[s].messages
                valid == NonEmptyMessages(messages)
                sys == SystemMessages(messages)
                query == IF valid = {} THEN <<>> ELSE Trim(messages[SetMax(valid)].content)
                systemPrompt == IF sys = {} THEN <<>> ELSE Trim(messages[SetMin(sys)].content)
            IN  IF query # <<>>
                THEN /\ Passed(s)
                     /\ calls[s][1].query = query
                     /\ normalized[s].customSystemPrompt = systemPrompt
                ELSE ~Passed(s)

\* C14: the upstream body has the field custom_base_system_prompt if and only if the
\* extracted system prompt is non-empty after trimming.
C14_SystemPromptFieldIffNonBlank ==
    \A s \in Slots :
        Passed(s) =>
            ((calls[s][1].custom_base_system_prompt # Undefined)
                 <=> (Trim(normalized[s].customSystemPrompt) # <<>>))

\* the two parts of t around its first colon; the second is undefined without a colon
BeforeFirstColon(t) ==
    IF IndexOf(t, <<":">>, 1) = 0 THEN t ELSE SubSeq(t, 1, IndexOf(t, <<":">>, 1) - 1)
AfterFirstColon(t) ==
    IF IndexOf(t, <<":">>, 1) = 0 THEN Undefined ELSE SubSeq(t, IndexOf(t, <<":">>, 1) + 1, Len(t))

\* C17: the text after "Bearer " is split on its first colon only: apiToken is what
\* precedes it and chatbotUuid everything after it, so a remainder with a second colon
\* is rejected by the UUID check (iterations with the UUID check).
C17_SplitOnFirstColon ==
    \A s \in Slots :
        (iteration # "first" /\ pc[s] # "idle" /\ StartsWith(request[s].authorization, BearerPrefix)) =>
            LET rest == authData(request[s].authorization)
            IN  /\ ~uuidRegex(AfterFirstColon(rest)) => ~Passed(s)
                /\ Passed(s) =>
                       /\ calls[s][1].chatbot_uuid = AfterFirstColon(rest)
                       /\ calls[s][1].authorization = TokenPrefix \o BeforeFirstColon(rest)

\* C18: at every outbound call the query, the user key and the API token are non-empty.
C18_NormalizedInvariants ==
    \A s \in Slots :
        Passed(s) =>
            /\ calls[s][1].query # <<>>
            /\ calls[s][1].user_key # <<>>
            /\ normalized[s].apiToken # <<>>
            /\ calls[s][1].authorization # TokenPrefix

\* C13: a legacy single-string request "System: S\nContexto Extra Human:\nQuery: Q\n
\* user_key: K", with S, Q and K free of the markers, is normalized to the system
\* prompt S trimmed, the query Q trimmed and the user key K trimmed (iterations that
\* read the legacy string); a request without a query is not sent upstream.
C13_LegacyStringParsing ==
    \A s \in Slots : \A S \in FormSystems, Q \in FormQueries, K \in FormKeys :
        (/\ iteration # "first"
         /\ pc[s] # "idle"
         /\ request[s].hasBody
         /\ request[s].authorization = GoodAuth
         /\ request[s].messages = <<MessageString(LegacyForm(S, Q, K))>>) =>
            IF Trim(Q) # <<>>
            THEN /\ Passed(s)
                 /\ calls[s][1].query = Trim(Q)
                 /\ normalized[s].customSystemPrompt = Trim(S)
                 /\ calls[s][1].user_key = Trim(K)
            ELSE ~Passed(s)

\* C15: for every request at most one outbound POST is issued, and exactly one for a
\* request that passes normalization: one while the handler awaits it, and still one
\* after it failed (error status, timeout or network error) in either failure mode.
C15_ExactlyOneCall ==
    \A s \in Slots :
        /\ Len(calls[s]) <= 1
        /\ pc[s] = "awaiting" => Len(calls[s]) = 1
        /\ outcome[s] # NoOutcome => (Ended(s) /\ Len(calls[s]) = 1)
        /\ (iteration # "draft" /\ pc[s] # "idle") =>
               (Len(calls[s]) = 1 <=>
                    \A now \in ClockReadings, random \in RandomRenderings :
                        normalize(iteration, request[s], now, random).ok)

\* an outbound call that failed and was not repeated, in a strict and in a resilient run
C15_Witness ==
    /\ iteration \in {"strict", "resilient"}
    /\ pc[1] = "done"
    /\ outcome[1].kind \in {"timeout", "network"}
    /\ Len(calls[1]) = 1
    /\ Len(responses[1]) = 1

\* C16: two runs of the same valid request with the same upstream outcome produce
\* completions equal in every field (id and created are not modelled, the user key
\* is no field of the completion): nothing of the first run reaches the second.
C16_SameRequestSameCompletion ==
    \A s, t \in Slots :
        (/\ Completed(s) /\ Completed(t)
         /\ request[s] = request[t]
         /\ outcome[s] = outcome[t]) =>
            responses[s] = responses[t]

\* two runs of one request that drew different generated user keys and were answered alike
C16_Witness ==
    /\ Completed(1) /\ Completed(2)
    /\ request[1] = request[2]
    /\ outcome[1] = outcome[2]
    /\ calls[1][1].user_key # calls[2][1].user_key
    /\ Response(1).status = 200
    /\ responses[1] = responses[2]

\* the outbound call and the response of slot s as the handler derives them from the
\* request of the slot and its upstream outcome alone, the process being fresh
OwnRun(s, now, random) == handle(iteration, request[s], NoGlobals, now, random).r

DerivedFromOwnRequest(s) ==
    \E now \in ClockReadings, random \in RandomRenderings :
        LET r == OwnRun(s, now, random)
        IN  /\ Passed(s) <=> r.ok
            /\ Passed(s) => calls[s] = <<outboundCall(iteration, r.n)>>
            /\ (pc[s] = "done" /\ Passed(s)) =>
                   Sent(Response(s)) = complete(iteration, request[s], r.n, outcome[s])
            /\ (pc[s] = "done" /\ ~Passed(s)) =>
                   Sent(Response(s)) = refuse(iteration, request[s], r)

\* C20: with two requests in flight, interleaved in any order, what is sent upstream
\* for a request and what is returned for it derive from that request's own headers,
\* body and upstream reply only.
C20_NoCrossRequestState ==
    \A s \in Slots : pc[s] # "idle" => DerivedFromOwnRequest(s)

\* C19: every request eventually gets its response: a pending outbound call is ended
\* by the 30-second timeout when the backend never answers, so no request waits forever.
C19_NoRequestWaitsForever == (pc[1] = "awaiting") ~> Ended(1)

\* step 2 of the legacy branch: the query the Contexto Extra section gives, '' when it
\* gives none (server.js 559-563, part_000 79-88)
contextQuery(it, messageString) ==
    IF ~contextoMatch(messageString).ok THEN <<>>
    ELSE IF it = "draft" THEN queryMatchDraft(contextoMatch(messageString).contextoContent).text
    ELSE queryMatch(contextoMatch(messageString).contextoContent)

\* the contents, up to the end of the line, of the lines of t that start with Human:
TopLevelHumanContents(t) ==
    {Trim(SubSeq(t, p + Len(HumanMarker), SkipLine(t, p + Len(HumanMarker)) - 1)) :
        p \in {i \in 1..Len(t) : LineStart(t, i) /\ MatchAt(t, HumanMarker, i)}}

\* C21: a legacy single-string request whose Contexto Extra section gave no query is
\* sent upstream only with the content of a line that starts with Human:, up to the
\* end of that line; the Human: inside "Contexto Extra Human:" supplies no query.
C21_FallbackOnlyTopLevelHuman ==
    \A s \in Slots :
        (/\ Passed(s)
         /\ IsLegacyString(request[s].messages)
         /\ ~Truthy(contextQuery(iteration, request[s].messages[1].text))) =>
            calls[s][1].query \in TopLevelHumanContents(request[s].messages[1].text)

\* the complete runs of word characters that follow, after optional white space, a
\* [FUNCTION_CALL] marker at the start of a line of answer
CompleteNames(answer) ==
    {SubSeq(answer, SkipSpaces(answer, p + Len(FunctionCallMarker)),
            SkipWord(answer, SkipSpaces(answer, p + Len(FunctionCallMarker))) - 1) :
        p \in {i \in 1..Len(answer) : LineStart(answer, i) /\ MatchAt(answer, FunctionCallMarker, i)}}

\* C22: whenever a tool call is emitted, function.name is the complete run of word
\* characters that follows the [FUNCTION_CALL] marker in the answer, never a proper
\* prefix of it; a marker and a name with no argument text give no tool call with a
\* shortened name.
C22_NameIsCompleteWordRun ==
    \A s \in Slots :
        (iteration = "resilientFC" /\ Completed(s) /\ Response(s).tool_calls # <<>>) =>
            Response(s).tool_calls[1].function.name \in CompleteNames(ParsedAnswer(s))

====
